---- MODULE Spec2Model ----
(***************************************************************************)
(* Model of the Shortcut MCP server (src/src/index.ts): the ShortcutAPI    *)
(* client (one fetch per operation) and the ShortcutMCPServer call-tool    *)
(* handler (configuration gate, routing, error conversion).                *)
(*                                                                         *)
(* A tool call runs in two uninterrupted segments, as an async function    *)
(* does: from its entry up to `await fetch(...)` (CallTool), and from the  *)
(* arrival of the response to the end of the handler (Complete).  The      *)
(* awaits after the response (response.text(), response.json(), the        *)
(* returns through the handler chain) touch only the call's own locals,    *)
(* so they are folded into Complete.                                       *)
(*                                                                         *)
(* Strings are sequences of pieces: Lit(s) is a literal piece, and the     *)
(* piece [json |-> v, indent |-> n] is the text JSON.stringify(v, null, n).*)
(* Concatenation and template literals are \o.                             *)
(***************************************************************************)
EXTENDS Integers, Sequences, FiniteSets, TLC

\* Number of tool calls that may be in flight at once.
MaxInFlight == 2

Slots == 1..MaxInFlight

\* Number of stories the remote service can hold; it numbers them from 7.
MaxStories == 1

StoryIds == 7..(6 + MaxStories)

----------------------------------------------------------------------------
\* Text and JSON

Lit(s) == [lit |-> s]

\* JSON.stringify(v, null, indent); indent 0 is the compact form.
JSONstringify(v, indent) == <<[json |-> v, indent |-> indent]>>

\* response.json(): parses the body text, rejects with a SyntaxError when the
\* text is not JSON (an empty body included).
JSONparse(text) ==
    IF Len(text) = 1 /\ "json" \in DOMAIN text[1]
    THEN [ok |-> TRUE, value |-> text[1].json]
    ELSE [ok |-> FALSE,
          error |-> [cls |-> "SyntaxError",
                     message |-> <<Lit("Unexpected end of JSON input")>>]]

\* Text t ends with p.
IsSuffixOf(p, t) == Len(p) <= Len(t) /\ SubSeq(t, Len(t) - Len(p) + 1, Len(t)) = p

----------------------------------------------------------------------------
\* Errors

Error(message) == [cls |-> "Error", message |-> message]
TypeError(message) == [cls |-> "TypeError", message |-> message]

\* new McpError(code, message).  The message is kept as given to the
\* constructor.
McpError(code, message) == [cls |-> "McpError", code |-> code, message |-> message]

NoError == [cls |-> "none"]

----------------------------------------------------------------------------
\* Tool names

Configure == "shortcut_configure"

\* The names advertised by the list-tools handler.
Catalog ==
    { "shortcut_configure",
      "shortcut_get_stories", "shortcut_get_story", "shortcut_create_story",
      "shortcut_update_story", "shortcut_delete_story",
      "shortcut_get_epics", "shortcut_get_epic", "shortcut_create_epic",
      "shortcut_update_epic",
      "shortcut_get_projects", "shortcut_get_project", "shortcut_create_project",
      "shortcut_get_members", "shortcut_get_current_member",
      "shortcut_get_labels", "shortcut_create_label",
      "shortcut_get_iterations", "shortcut_get_iteration",
      "shortcut_create_iteration",
      "shortcut_search", "shortcut_get_workflows" }

\* Mutant: the switch lacks the case of one advertised tool.
SwitchCases_NoWorkflows == Catalog \ { "shortcut_get_workflows" }

\* The case labels of the switch in the call-tool handler.
SwitchCases ==
    { "shortcut_configure",
      "shortcut_get_stories", "shortcut_get_story", "shortcut_create_story",
      "shortcut_update_story", "shortcut_delete_story",
      "shortcut_get_epics", "shortcut_get_epic", "shortcut_create_epic",
      "shortcut_update_epic",
      "shortcut_get_projects", "shortcut_get_project", "shortcut_create_project",
      "shortcut_get_members", "shortcut_get_current_member",
      "shortcut_get_labels", "shortcut_create_label",
      "shortcut_get_iterations", "shortcut_get_iteration",
      "shortcut_create_iteration",
      "shortcut_search", "shortcut_get_workflows" }

\* Names a host may send that the server does not know.
UnknownNames == { "shortcut_update_project", "shortcut_delete_epic" }

Names == Catalog \cup UnknownNames

----------------------------------------------------------------------------
\* Argument objects: request.params.arguments is optional, so a call carries
\* either no argument object (undefined) or a flat object.

EmptyObj == [f \in {} |-> 0]
Undefined == [has |-> FALSE, obj |-> EmptyObj]
Obj(o) == [has |-> TRUE, obj |-> o]

Tokens == { "tok-A", "tok-B" }
AltBaseUrl == "https://alt.example/api/v3"

ConfigureArgs ==
    { Obj([apiToken |-> t]) : t \in Tokens }
      \cup { Obj([apiToken |-> "tok-A", baseUrl |-> AltBaseUrl]) }

ArgsFor(name) ==
    CASE name = "shortcut_configure" -> ConfigureArgs \cup { Undefined }
      [] name = "shortcut_get_stories" ->
            { Undefined, Obj(EmptyObj), Obj([project_id |-> 5]),
              Obj([epic_id |-> 3, includes_description |-> TRUE,
                   workflow_state_id |-> 9]),
              Obj([project_id |-> 0, includes_description |-> FALSE,
                   workflow_state_id |-> 9]) }
      [] name \in { "shortcut_get_story", "shortcut_delete_story" } ->
            { Undefined } \cup { Obj([id |-> i]) : i \in StoryIds }
      [] name \in { "shortcut_get_epic", "shortcut_get_project",
                    "shortcut_get_iteration" } ->
            { Undefined, Obj([id |-> 7]) }
      [] name = "shortcut_create_story" ->
            { Obj([name |-> "X", story_type |-> "feature"]),
              Obj([name |-> "Z", story_type |-> "bug"]) }
      [] name = "shortcut_update_story" ->
            { Undefined, Obj([id |-> 42, estimate |-> 3]),
              Obj([id |-> 0, name |-> "Y", estimate |-> 5]) }
      [] name = "shortcut_create_epic" -> { Obj([name |-> "E"]) }
      [] name = "shortcut_update_epic" ->
            { Undefined, Obj([id |-> 42, state |-> "done"]) }
      [] name = "shortcut_create_project" ->
            { Obj([name |-> "P", team_id |-> 1]) }
      [] name = "shortcut_create_label" -> { Obj([name |-> "L"]) }
      [] name = "shortcut_create_iteration" ->
            { Obj([name |-> "I", start_date |-> "2024-01-01",
                   end_date |-> "2024-01-14"]) }
      [] name = "shortcut_search" ->
            { Undefined, Obj([query |-> "bug"]),
              Obj([query |-> "bug", detail |-> "slim"]),
              Obj([query |-> "story bug", detail |-> "full"]) }
      [] OTHER -> { Obj(EmptyObj) }

----------------------------------------------------------------------------
\* ShortcutAPI (the remote client)

DefaultBaseUrl == "https://api.app.shortcut.com/api/v3"

\* this.shortcutAPI = null
Null == [isNull |-> TRUE]

\* const { apiToken, baseUrl } = args; { apiToken, baseUrl }: the
\* configuration keeps these two fields of the arguments and nothing else.
ConfigOf(obj) == [f \in (DOMAIN obj \cap {"apiToken", "baseUrl"}) |-> obj[f]]

\* new ShortcutAPI(config): baseUrl = config.baseUrl || default.
NewShortcutAPI(config) ==
    [config |-> config,
     baseUrl |-> IF "baseUrl" \in DOMAIN config /\ config.baseUrl # ""
                 THEN config.baseUrl ELSE DefaultBaseUrl]

NoBody == [has |-> FALSE, text |-> << >>]
\* Mutant: the body is an empty object whatever is passed.
BodyOf_Empty(args) == [has |-> TRUE, text |-> JSONstringify(EmptyObj, 0)]

\* body: JSON.stringify(x); JSON.stringify(undefined) is undefined (no body).
BodyOf(args) ==
    IF args.has THEN [has |-> TRUE, text |-> JSONstringify(args.obj, 0)]
    ELSE NoBody

\* Mutant: every request goes to the production URL.
FetchRequest_DefaultBase(api, endpoint, options) ==
    [url |-> <<Lit(DefaultBaseUrl)>> \o endpoint,
     method |-> options.method,
     headers |-> [ContentType |-> "application/json",
                  ShortcutToken |-> api.config.apiToken],
     body |-> options.body]

\* Mutant: the token is one shared setting, not the client's own.
FetchRequest_SharedToken(api, endpoint, options) ==
    [url |-> <<Lit(api.baseUrl)>> \o endpoint,
     method |-> options.method,
     headers |-> [ContentType |-> "application/json",
                  ShortcutToken |-> "tok-A"],
     body |-> options.body]

\* The request that makeRequest hands to fetch.  An options object without
\* a method leaves fetch's default, GET.
FetchRequest(api, endpoint, options) ==
    [url |-> <<Lit(api.baseUrl)>> \o endpoint,
     method |-> options.method,
     headers |-> [ContentType |-> "application/json",
                  ShortcutToken |-> api.config.apiToken],
     body |-> options.body]

\* Mutant: a read is sent as a write.
Get_AsPost == [method |-> "POST", body |-> NoBody]

Get == [method |-> "GET", body |-> NoBody]

\* `${id}` for a destructured id: the decimal digits, or "undefined".
IdStr(obj) == IF "id" \in DOMAIN obj THEN ToString(obj.id) ELSE "undefined"

\* Mutant: the identifier stays in the update payload.
Rest_KeepsId(obj) == obj

\* const { id, ...updates } = args
Rest(obj) == [f \in (DOMAIN obj \ {"id"}) |-> obj[f]]

\* encodeURIComponent: unreserved characters are kept, a space becomes %20.
EncodeURIComponent(s) == IF s = "story bug" THEN "story%20bug" ELSE s

\* Mutant: getStories forgets the workflow-state filter.
StoriesFilters_NoWorkflowState ==
    << "project_id", "epic_id", "includes_description" >>

\* getStories: a filter is appended to the query when its value is truthy.
StoriesFilters == << "project_id", "epic_id", "includes_description",
                     "workflow_state_id" >>

FilterValue(f, v) == IF f = "includes_description" THEN "true" ELSE ToString(v)

RECURSIVE SearchParams(_, _)
SearchParams(obj, i) ==
    IF i > Len(StoriesFilters) THEN << >>
    ELSE LET f == StoriesFilters[i]
             present == f \in DOMAIN obj /\
                        (IF f = "includes_description" THEN obj[f] = TRUE
                         ELSE obj[f] # 0)
         IN (IF present THEN << <<f, FilterValue(f, obj[f])>> >> ELSE << >>)
              \o SearchParams(obj, i + 1)

\* URLSearchParams.toString(): k=v joined by &.
RECURSIVE QueryString(_)
QueryString(pairs) ==
    IF pairs = << >> THEN << >>
    ELSE <<Lit(pairs[1][1]), Lit("="), Lit(pairs[1][2])>>
           \o (IF Len(pairs) > 1 THEN <<Lit("&")>> ELSE << >>)
           \o QueryString(Tail(pairs))

StoriesQuery(args) ==
    LET q == QueryString(SearchParams(args.obj, 1))
    IN IF q = << >> THEN << >> ELSE <<Lit("?")>> \o q

\* Mutant: handleSearch defaults to the other detail level.
DetailOf_DefaultSlim(obj) ==
    IF "detail" \in DOMAIN obj THEN obj.detail ELSE "slim"

\* const { query, detail = 'full' } = args
DetailOf(obj) == IF "detail" \in DOMAIN obj THEN obj.detail ELSE "full"

\* ShortcutAPI.updateProject: defined by the client, called by no handler.
UpdateProject(args) ==
    [endpoint |-> <<Lit("/projects/"), Lit(IdStr(args.obj))>>,
     options |-> [method |-> "PUT", body |-> BodyOf(Obj(Rest(args.obj)))]]

\* The ShortcutAPI method each handler calls, as the endpoint and options it
\* passes to makeRequest.  args is the handler's argument object.
ApiCall(name, args) ==
    CASE name = "shortcut_configure" ->
            [endpoint |-> <<Lit("/member")>>, options |-> Get]
      [] name = "shortcut_get_stories" ->
            [endpoint |-> <<Lit("/stories/search")>> \o StoriesQuery(args),
             options |-> [method |-> "POST",
                          body |-> [has |-> TRUE,
                                    text |-> JSONstringify(args.obj, 0)]]]
      [] name = "shortcut_get_story" ->
            [endpoint |-> <<Lit("/stories/"), Lit(IdStr(args.obj))>>,
             options |-> Get]
      [] name = "shortcut_create_story" ->
            [endpoint |-> <<Lit("/stories")>>,
             options |-> [method |-> "POST", body |-> BodyOf(args)]]
      [] name = "shortcut_update_story" ->
            [endpoint |-> <<Lit("/stories/"), Lit(IdStr(args.obj))>>,
             options |-> [method |-> "PUT", body |-> BodyOf(Obj(Rest(args.obj)))]]
      [] name = "shortcut_delete_story" ->
            [endpoint |-> <<Lit("/stories/"), Lit(IdStr(args.obj))>>,
             options |-> [method |-> "DELETE", body |-> NoBody]]
      [] name = "shortcut_get_epics" ->
            [endpoint |-> <<Lit("/epics")>>, options |-> Get]
      [] name = "shortcut_get_epic" ->
            [endpoint |-> <<Lit("/epics/"), Lit(IdStr(args.obj))>>,
             options |-> Get]
      [] name = "shortcut_create_epic" ->
            [endpoint |-> <<Lit("/epics")>>,
             options |-> [method |-> "POST", body |-> BodyOf(args)]]
      [] name = "shortcut_update_epic" ->
            [endpoint |-> <<Lit("/epics/"), Lit(IdStr(args.obj))>>,
             options |-> [method |-> "PUT", body |-> BodyOf(Obj(Rest(args.obj)))]]
      [] name = "shortcut_get_projects" ->
            [endpoint |-> <<Lit("/projects")>>, options |-> Get]
      [] name = "shortcut_get_project" ->
            [endpoint |-> <<Lit("/projects/"), Lit(IdStr(args.obj))>>,
             options |-> Get]
      [] name = "shortcut_create_project" ->
            [endpoint |-> <<Lit("/projects")>>,
             options |-> [method |-> "POST", body |-> BodyOf(args)]]
      [] name = "shortcut_get_members" ->
            [endpoint |-> <<Lit("/members")>>, options |-> Get]
      [] name = "shortcut_get_current_member" ->
            [endpoint |-> <<Lit("/member")>>, options |-> Get]
      [] name = "shortcut_get_labels" ->
            [endpoint |-> <<Lit("/labels")>>, options |-> Get]
      [] name = "shortcut_create_label" ->
            [endpoint |-> <<Lit("/labels")>>,
             options |-> [method |-> "POST", body |-> BodyOf(args)]]
      [] name = "shortcut_get_iterations" ->
            [endpoint |-> <<Lit("/iterations")>>, options |-> Get]
      [] name = "shortcut_get_iteration" ->
            [endpoint |-> <<Lit("/iterations/"), Lit(IdStr(args.obj))>>,
             options |-> Get]
      [] name = "shortcut_create_iteration" ->
            [endpoint |-> <<Lit("/iterations")>>,
             options |-> [method |-> "POST", body |-> BodyOf(args)]]
      [] name = "shortcut_search" ->
            [endpoint |->
                <<Lit("/search"), Lit("?query="),
                  Lit(IF "query" \in DOMAIN args.obj
                      THEN EncodeURIComponent(args.obj.query) ELSE "undefined"),
                  Lit("&detail="), Lit(DetailOf(args.obj))>>,
             options |-> Get]
      [] name = "shortcut_get_workflows" ->
            [endpoint |-> <<Lit("/workflows")>>, options |-> Get]

\* Handlers that destructure their argument object; destructuring undefined
\* throws a TypeError before anything else happens.
Destructuring ==
    { "shortcut_configure", "shortcut_get_story", "shortcut_update_story",
      "shortcut_delete_story", "shortcut_get_epic", "shortcut_update_epic",
      "shortcut_get_project", "shortcut_get_iteration", "shortcut_search" }

\* Mutant: a handler checks its arguments and raises a typed error.
DestructureError_Typed ==
    McpError("InvalidRequest", <<Lit("Missing arguments")>>)

DestructureError ==
    TypeError(<<Lit("Cannot destructure property of 'args' as it is undefined.")>>)

----------------------------------------------------------------------------
\* The remote service, as seen through fetch

\* The identity GET /member answers for a token: the same for the same token.
MemberOf(token) == [mention_name |-> token]

\* The stories the remote service holds: what was sent to POST /stories at
\* a base URL, with the identifier the service gave it.
VARIABLE remote

IsCreateStory(req) ==
    req.method = "POST" /\ Len(req.url) = 2 /\ req.url[2] = Lit("/stories")

AddressesStory(req) == Len(req.url) = 3 /\ req.url[2] = Lit("/stories/")

\* The stories held at the request's base URL under the identifier in its path.
Held(req) ==
    { e \in remote : e.at = req.url[1] /\ Lit(ToString(e.story.id)) = req.url[3] }

FreeIds == StoryIds \ { e.story.id : e \in remote }

NextId == CHOOSE i \in FreeIds : \A j \in FreeIds : i <= j

WithId(v, id) == [f \in DOMAIN v \cup {"id"} |-> IF f = "id" THEN id ELSE v[f]]

\* What the service keeps of a POST /stories: the body, under a new identifier.
Stored(req) ==
    [at |-> req.url[1],
     story |-> WithId(JSONparse(req.body.text).value, NextId)]

\* The service answers a creation with its JSON payload while it has room.
RemoteAccepts(req, answer) ==
    (answer = "json" /\ IsCreateStory(req)) => FreeIds # {}

\* The stories held once the request has been answered: a creation answered
\* with the payload adds its story, a deletion answered with success removes
\* the story it addresses.
RemoteAfter(req, answer) ==
    IF answer = "json" /\ IsCreateStory(req)
    THEN remote \cup { Stored(req) }
    ELSE IF answer \in {"json", "empty"} /\ req.method = "DELETE"
            /\ AddressesStory(req)
    THEN remote \ Held(req)
    ELSE remote

PayloadFor(req) ==
    IF IsSuffixOf(<<Lit("/member")>>, req.url)
    THEN MemberOf(req.headers.ShortcutToken)
    ELSE IF IsCreateStory(req) /\ FreeIds # {}
    THEN Stored(req).story
    ELSE IF req.method = "GET" /\ AddressesStory(req) /\ Held(req) # {}
    THEN (CHOOSE e \in Held(req) : TRUE).story
    ELSE [entity |-> req.method]

\* response.ok: the status is in the range 200-299.
ResponseOk(status) == status >= 200 /\ status <= 299

NoResponse == [kind |-> "none", status |-> 0, text |-> << >>]

\* What may come back for a request: the network fails (fetch rejects), the
\* remote refuses with a plain-text or a JSON body, the remote answers with
\* the JSON payload, or it answers success with an empty body.
Answers == { "network", "unauthorized", "notfound", "json", "empty" }

Respond(req, answer) ==
    CASE answer = "network" -> [kind |-> "network", status |-> 0, text |-> << >>]
      [] answer = "unauthorized" ->
            [kind |-> "http", status |-> 401, text |-> <<Lit("Unauthorized")>>]
      [] answer = "notfound" ->
            [kind |-> "http", status |-> 404,
             text |-> JSONstringify([message |-> "Resource not found."], 0)]
      [] answer = "json" ->
            [kind |-> "http", status |-> 200,
             text |-> JSONstringify(PayloadFor(req), 0)]
      [] answer = "empty" ->
            [kind |-> "http", status |-> 204, text |-> << >>]

\* makeRequest after fetch has settled: the value it resolves with, or the
\* error it rejects with.
MakeRequest(resp) ==
    IF resp.kind = "network"
    THEN [ok |-> FALSE, error |-> TypeError(<<Lit("fetch failed")>>)]
    ELSE IF ~ResponseOk(resp.status)
    THEN [ok |-> FALSE,
          error |-> Error(<<Lit("Shortcut API error ("),
                            Lit(ToString(resp.status)), Lit("): ")>>
                          \o resp.text)]
    ELSE JSONparse(resp.text)

\* Mutant: makeRequest calls fetch again after a non-success status.
FetchesAfter_Retries(fetches, resp) ==
    IF resp.kind = "http" /\ ~ResponseOk(resp.status)
    THEN fetches \o fetches ELSE fetches

\* The fetch calls an operation has made once its response is handled:
\* makeRequest throws or returns, it does not call fetch again.
FetchesAfter(fetches, resp) == fetches

----------------------------------------------------------------------------
\* ShortcutMCPServer: the call-tool handler

NotConfiguredMessage ==
    <<Lit("Shortcut API not configured. Please run shortcut_configure first.")>>

\* Mutant: the gate forgets one tool.
GateFails_SkipsWorkflows(api, name) ==
    api = Null /\ name # Configure /\ name # "shortcut_get_workflows"

\* Mutant: the name is looked up first, the gate applies to known names only.
GateFails_AfterLookup(api, name) ==
    api = Null /\ name # Configure /\ name \in SwitchCases

\* Mutant: the handler has no gate.
GateFails_Never(api, name) == FALSE

\* The gate at the top of the handler.
GateFails(api, name) == api = Null /\ name # Configure

\* Mutant: the default case raises the wrong code.
UnknownTool_AsInvalidRequest(name) ==
    McpError("InvalidRequest", <<Lit("Unknown tool: "), Lit(name)>>)

\* The error of the switch's default case.
UnknownTool(name) ==
    McpError("MethodNotFound", <<Lit("Unknown tool: "), Lit(name)>>)

\* this.shortcutAPI!.method(...) on a null reference.
NullDereference ==
    TypeError(<<Lit("Cannot read properties of null")>>)

\* The handler from its entry to its first await: the error it throws, or
\* the client it issues its request through and the value it leaves in
\* this.shortcutAPI.
Entry(api, name, args) ==
    IF GateFails(api, name)
    THEN [throws |-> TRUE,
          error |-> McpError("InvalidRequest", NotConfiguredMessage),
          client |-> Null, api |-> api]
    ELSE IF name \notin SwitchCases
    THEN [throws |-> TRUE, error |-> UnknownTool(name),
          client |-> Null, api |-> api]
    ELSE IF name \in Destructuring /\ ~args.has
    THEN [throws |-> TRUE, error |-> DestructureError,
          client |-> Null, api |-> api]
    ELSE IF name = Configure
    THEN [throws |-> FALSE, error |-> NoError,
          client |-> NewShortcutAPI(ConfigOf(args.obj)),
          api |-> NewShortcutAPI(ConfigOf(args.obj))]
    ELSE IF api = Null
    THEN [throws |-> TRUE, error |-> NullDereference,
          client |-> Null, api |-> api]
    ELSE [throws |-> FALSE, error |-> NoError, client |-> api, api |-> api]

\* Mutant: the catch clause wraps every error, typed ones included.
Catch_WrapsAll(name, error) ==
    McpError("InternalError",
             <<Lit("Error executing "), Lit(name), Lit(": ")>> \o error.message)

\* Mutant: the catch clause rethrows whatever it caught.
Catch_Rethrows(name, error) == error

\* The catch clause of the call-tool handler.
Catch(name, error) ==
    IF error.cls = "McpError" THEN error
    ELSE McpError("InternalError",
                  <<Lit("Error executing "), Lit(name), Lit(": ")>>
                    \o error.message)

ConfirmationOf(name) ==
    CASE name = "shortcut_create_story" -> "Story created successfully!\n"
      [] name = "shortcut_update_story" -> "Story updated successfully!\n"
      [] name = "shortcut_create_epic" -> "Epic created successfully!\n"
      [] name = "shortcut_update_epic" -> "Epic updated successfully!\n"
      [] name = "shortcut_create_project" -> "Project created successfully!\n"
      [] name = "shortcut_create_label" -> "Label created successfully!\n"
      [] name = "shortcut_create_iteration" -> "Iteration created successfully!\n"
      [] OTHER -> ""

\* Mutant: the confirmation does not say which story.
DeletedText_NoId(args) == <<Lit("Story deleted successfully!")>>

\* `Story ${id} deleted successfully!`
DeletedText(args) ==
    <<Lit("Story "), Lit(IdStr(args.obj)), Lit(" deleted successfully!")>>

\* The text a handler returns once its client operation has resolved.
Format(name, args, value) ==
    CASE name = "shortcut_configure" ->
            <<Lit("Shortcut API configured successfully!")>>
      [] name = "shortcut_delete_story" -> DeletedText(args)
      [] ConfirmationOf(name) # "" ->
            <<Lit(ConfirmationOf(name))>> \o JSONstringify(value, 2)
      [] OTHER -> JSONstringify(value, 2)

\* Mutant: handleConfigure reports the failure without its cause.
Raise_DropsCause(name, error) ==
    IF name = Configure
    THEN McpError("InvalidRequest", <<Lit("Failed to configure Shortcut API")>>)
    ELSE error

\* The error that leaves the handler's switch when the client operation
\* rejected with `error`: handleConfigure wraps it, the others let it through.
Raise(name, error) ==
    IF name = Configure
    THEN McpError("InvalidRequest",
                  <<Lit("Failed to configure Shortcut API: ")>> \o error.message)
    ELSE error

\* Mutant: handleConfigure leaves the reference alone when its probe failed.
ClientAfter_KeepOnFailure(name, r, api) == api

\* Mutant: handleConfigure resets the reference on success.
ClientAfter_ResetOnSuccess(name, r, api) ==
    IF name = Configure /\ r.ok THEN Null ELSE api

\* Mutant: every handler resets the reference when its operation fails.
ClientAfter_ResetOnAnyError(name, r, api) ==
    IF ~r.ok THEN Null ELSE api

\* The value of this.shortcutAPI when a handler finishes: handleConfigure
\* resets it when its probe failed, no other handler assigns it.
ClientAfter(name, r, api) ==
    IF name = Configure /\ ~r.ok THEN Null ELSE api

Success(text) == [kind |-> "result", content |-> <<[type |-> "text", text |-> text]>>]
Failure(error) == [kind |-> "error", error |-> error]
NoOutcome == [kind |-> "none"]

----------------------------------------------------------------------------
\* State

VARIABLES
    shortcutAPI,  \* ShortcutMCPServer.shortcutAPI: Null or a ShortcutAPI
    calls,        \* the tool calls in flight (awaiting fetch), by slot
    last,         \* what the most recent step did: a call entered and awaits,
                  \* a call threw before awaiting, or a call finished
    probes        \* history: the probes of configure calls that succeeded

vars == <<shortcutAPI, calls, last, probes, remote>>

Idle == [name |-> "idle"]

NoEvent ==
    [step |-> "init", name |-> "", args |-> Undefined, seen |-> Null,
     fetches |-> << >>, response |-> NoResponse, thrown |-> NoError,
     raised |-> NoError, outcome |-> NoOutcome]

Init ==
    /\ shortcutAPI = Null
    /\ calls = [s \in Slots |-> Idle]
    /\ last = NoEvent
    /\ probes = {}
    /\ remote = {}

\* Mutant: list tools is put behind the configuration gate.
ListToolsResult_Gated(api) ==
    IF api = Null
    THEN Failure(McpError("InvalidRequest", NotConfiguredMessage))
    ELSE [kind |-> "tools", tools |-> Catalog]

\* The list-tools handler returns the literal catalog; it reads no state.
ListToolsResult(api) == [kind |-> "tools", tools |-> Catalog]

\* A list-tools request arrives and is answered.
ListTools ==
    /\ last' = [step |-> "list", name |-> "", args |-> Undefined,
                seen |-> shortcutAPI, fetches |-> << >>,
                response |-> NoResponse, thrown |-> NoError,
                raised |-> NoError, outcome |-> ListToolsResult(shortcutAPI)]
    /\ UNCHANGED <<shortcutAPI, calls, probes, remote>>

\* A new call takes the lowest free slot.
FreeSlot(s) == calls[s] = Idle /\ \A t \in Slots : t < s => calls[t] # Idle

NoneInFlight == \A s \in Slots : calls[s] = Idle

\* A call-tool request arrives: the handler runs up to `await fetch(...)`,
\* or throws before it gets there and the error goes back to the caller.
CallTool(s, name, args) ==
    /\ FreeSlot(s)
    /\ LET e == Entry(shortcutAPI, name, args) IN
       IF e.throws
       THEN /\ last' = [step |-> "reject", name |-> name, args |-> args,
                        seen |-> shortcutAPI, fetches |-> << >>,
                        response |-> NoResponse, thrown |-> NoError,
                        raised |-> e.error,
                        outcome |-> Failure(Catch(name, e.error))]
            /\ shortcutAPI' = e.api
            /\ UNCHANGED <<calls, probes, remote>>
       ELSE LET op == ApiCall(name, args)
                req == FetchRequest(e.client, op.endpoint, op.options)
            IN /\ shortcutAPI' = e.api
               /\ calls' = [calls EXCEPT ![s] =
                              [name |-> name, args |-> args,
                               seen |-> shortcutAPI, client |-> e.client,
                               fetches |-> <<req>>]]
               /\ last' = [step |-> "await", name |-> name, args |-> args,
                           seen |-> shortcutAPI, fetches |-> <<req>>,
                           response |-> NoResponse, thrown |-> NoError,
                           raised |-> NoError, outcome |-> NoOutcome]
               /\ UNCHANGED <<probes, remote>>

\* The response to a call's fetch arrives: makeRequest settles, the handler
\* formats the value or the error passes through the catch clauses, and the
\* outcome goes back to the caller.
Complete(s, answer) ==
    /\ calls[s] # Idle
    /\ RemoteAccepts(calls[s].fetches[1], answer)
    /\ remote' = RemoteAfter(calls[s].fetches[1], answer)
    /\ LET c == calls[s]
           resp == Respond(c.fetches[1], answer)
           r == MakeRequest(resp)
           raised == IF r.ok THEN NoError ELSE Raise(c.name, r.error)
       IN /\ shortcutAPI' = ClientAfter(c.name, r, shortcutAPI)
          /\ calls' = [calls EXCEPT ![s] = Idle]
          /\ probes' = IF c.name = Configure /\ r.ok
                       THEN probes \cup { [client |-> c.client,
                                           request |-> c.fetches[1],
                                           value |-> r.value] }
                       ELSE probes
          /\ last' = [step |-> "complete", name |-> c.name, args |-> c.args,
                      seen |-> c.seen,
                      fetches |-> FetchesAfter(c.fetches, resp),
                      response |-> resp,
                      thrown |-> IF r.ok THEN NoError ELSE r.error,
                      raised |-> raised,
                      outcome |-> IF r.ok
                                  THEN Success(Format(c.name, c.args, r.value))
                                  ELSE Failure(Catch(c.name, raised))]

\* One call at a time: the host sends a request after the previous one has
\* been answered.
Next ==
    \/ \E s \in Slots, name \in Names : \E args \in ArgsFor(name) :
          NoneInFlight /\ CallTool(s, name, args)
    \/ \E s \in Slots, answer \in Answers : Complete(s, answer)
    \/ NoneInFlight /\ ListTools

Spec == Init /\ [][Next]_vars

\* Overlapping calls: a request may arrive while others await their fetch.
ConcNames ==
    { "shortcut_configure", "shortcut_get_current_member",
      "shortcut_delete_story", "shortcut_update_project" }

ConcArgsFor(name) ==
    IF name = Configure THEN { Obj([apiToken |-> t]) : t \in Tokens }
    ELSE ArgsFor(name)

NextConc ==
    \/ \E s \in Slots, name \in ConcNames : \E args \in ConcArgsFor(name) :
          CallTool(s, name, args)
    \/ \E s \in Slots, answer \in Answers : Complete(s, answer)
    \/ ListTools

SpecConc == Init /\ [][NextConc]_vars

\* Overlapping calls, with every fetch settling: it resolves, or it rejects
\* when the connection fails or times out.
FairNames ==
    { "shortcut_configure", "shortcut_get_current_member", "shortcut_delete_epic" }

FairArgsFor(name) ==
    IF name = Configure THEN { Obj([apiToken |-> "tok-A"]) } ELSE ArgsFor(name)

NextFair ==
    \/ \E s \in Slots, name \in FairNames : \E args \in FairArgsFor(name) :
          CallTool(s, name, args)
    \/ \E s \in Slots, answer \in Answers : Complete(s, answer)
    \/ ListTools

SpecFair ==
    /\ Init /\ [][NextFair]_vars
    /\ \A s \in Slots : WF_vars(\E answer \in Answers : Complete(s, answer))

----------------------------------------------------------------------------
\* Properties

Typed(o, code) ==
    o.kind = "error" /\ o.error.cls = "McpError" /\ o.error.code = code

\* The most recent step finished a call: it threw before awaiting, or its
\* response was handled.
Returned == last.step \in {"reject", "complete"}

\* C1: a call of a catalog tool other than configure that finds the
\* dispatcher Unconfigured fails with Invalid-Request and issues no HTTP
\* request.
C1_ConfigurationGate ==
    (last.step \in {"reject", "await", "complete"}
        /\ last.name \in Catalog \ {Configure}
        /\ last.seen = Null)
    => /\ last.step = "reject"
       /\ Typed(last.outcome, "InvalidRequest")
       /\ last.fetches = << >>

C1_Witness ==
    /\ last.step = "reject"
    /\ last.name = "shortcut_get_workflows"
    /\ last.seen = Null
    /\ Typed(last.outcome, "InvalidRequest")

\* C2 as stated: a call with a name outside the catalog fails with
\* Method-Not-Found whether or not the dispatcher is configured.
C2_UnknownAlwaysMethodNotFound ==
    (last.step \in {"reject", "await", "complete"} /\ last.name \notin Catalog)
    => Typed(last.outcome, "MethodNotFound")

\* C2 amended: a call with a name outside the catalog issues no request and
\* fails with Method-Not-Found naming the tool when the dispatcher is
\* Configured, and with the gate's Invalid-Request when it is Unconfigured.
C2_UnknownByState ==
    (last.step \in {"reject", "await", "complete"} /\ last.name \notin Catalog)
    => /\ last.step = "reject"
       /\ last.fetches = << >>
       /\ IF last.seen = Null
          THEN Typed(last.outcome, "InvalidRequest")
          ELSE /\ Typed(last.outcome, "MethodNotFound")
               /\ IsSuffixOf(<<Lit(last.name)>>, last.outcome.error.message)

C2_Witness ==
    /\ last.step = "reject"
    /\ last.name = "shortcut_update_project"
    /\ last.seen # Null
    /\ Typed(last.outcome, "MethodNotFound")

ConfigureFailed ==
    last.step = "complete" /\ last.name = Configure /\ last.thrown.cls # "none"

\* C3: a configure call whose probe fails returns Invalid-Request with the
\* probe's error message embedded and leaves the dispatcher Unconfigured;
\* the next call of another tool fails with Invalid-Request.
C3_FailedConfigure ==
    /\ [](ConfigureFailed =>
            /\ Typed(last.outcome, "InvalidRequest")
            /\ last.thrown.message # << >>
            /\ IsSuffixOf(last.thrown.message, last.outcome.error.message)
            /\ shortcutAPI = Null)
    /\ [][(ConfigureFailed /\ last'.step \in {"reject", "await"}
             /\ last'.name # Configure)
          => (last'.step = "reject" /\ Typed(last'.outcome, "InvalidRequest")
                /\ last'.fetches = << >>)]_vars

C3_Witness ==
    /\ ConfigureFailed
    /\ last.response.status = 401
    /\ Typed(last.outcome, "InvalidRequest")
    /\ shortcutAPI = Null

GetCurrentMember == "shortcut_get_current_member"

\* C4: a configure call whose probe succeeds leaves the dispatcher holding
\* the client built from its arguments; a get_current_member call that
\* follows passes the gate, issues the request the probe issued (GET /member,
\* same token, same base URL) and, answered as the probe was, returns the
\* payload the probe fetched.
C4_ConfigureThenCurrentMember ==
    /\ (last.step = "complete" /\ last.name = Configure
          /\ last.outcome.kind = "result")
       => /\ shortcutAPI = NewShortcutAPI(ConfigOf(last.args.obj))
          /\ \E p \in probes : p.client = shortcutAPI
    /\ (last.step # "init" /\ last.name = GetCurrentMember /\ last.seen # Null)
       => /\ last.step \in {"await", "complete"}
          /\ \E p \in probes : p.client = last.seen
          /\ \A p \in probes : p.client = last.seen =>
                /\ last.fetches = <<p.request>>
                /\ p.request.method = "GET"
                /\ p.request.url = <<Lit(last.seen.baseUrl), Lit("/member")>>
                /\ p.request.headers.ShortcutToken = last.seen.config.apiToken
                /\ (last.step = "complete" /\ last.response.status = 200)
                   => last.outcome = Success(JSONstringify(p.value, 2))

C4_Witness ==
    /\ last.step = "complete"
    /\ last.name = GetCurrentMember
    /\ last.response.status = 200
    /\ last.seen = NewShortcutAPI([apiToken |-> "tok-A", baseUrl |-> AltBaseUrl])
    /\ \E p \in probes : p.client = last.seen
                           /\ last.outcome = Success(JSONstringify(p.value, 2))

\* C5 as stated: a tool other than configure issues a request only with a
\* token that a configure call's probe has already shown to be good.
C5_RequestsOnlyAfterProbe ==
    (last.step = "await" /\ last.name # Configure)
    => \E p \in probes :
          p.client.config.apiToken = last.fetches[1].headers.ShortcutToken

\* C6 as stated: the client a configure call builds is not the dispatcher's
\* client while its probe is pending, and a failed probe leaves the
\* dispatcher's reference as it was before the call.
C6_CommitOnlyOnSuccess ==
    /\ (last.step = "await" /\ last.name = Configure)
       => shortcutAPI = last.seen
    /\ ConfigureFailed => shortcutAPI = last.seen

\* C7: a step of a call of any tool other than configure leaves the
\* dispatcher's client reference as it was; only configure writes it.
C7_OnlyConfigureWrites ==
    [][(last'.step # "init" /\ last'.name # Configure)
        => shortcutAPI' = shortcutAPI]_vars

C7_Witness ==
    /\ last.step = "complete"
    /\ last.name = "shortcut_get_story"
    /\ last.outcome.kind = "error"
    /\ shortcutAPI # Null
    /\ shortcutAPI = last.seen

InternalMessage(name, message) ==
    <<Lit("Error executing "), Lit(name), Lit(": ")>> \o message

\* C8: an error that reaches the handler's catch clause and is not a typed
\* dispatcher error goes to the caller as Internal-Error with the tool name
\* and the underlying message; a typed error goes to the caller unchanged.
\* For the tools other than configure, a network failure, a non-success
\* status and an unparsable body are such untyped errors.
C8_ErrorConversion ==
    /\ (Returned /\ last.raised.cls # "none") =>
          /\ last.outcome.kind = "error"
          /\ IF last.raised.cls = "McpError"
             THEN last.outcome.error = last.raised
             ELSE /\ Typed(last.outcome, "InternalError")
                  /\ last.outcome.error.message
                        = InternalMessage(last.name, last.raised.message)
    /\ (last.step = "complete" /\ last.name # Configure
          /\ last.response.status # 200) =>
          /\ Typed(last.outcome, "InternalError")
          /\ last.outcome.error.message
                = InternalMessage(last.name, last.thrown.message)

C8_Witness ==
    /\ last.step = "complete"
    /\ last.name = "shortcut_get_epics"
    /\ last.response.kind = "network"
    /\ Typed(last.outcome, "InternalError")

C8_WitnessTyped ==
    /\ ConfigureFailed
    /\ last.raised.cls = "McpError"
    /\ last.outcome.error = last.raised

ErrorCodes == { "InvalidRequest", "MethodNotFound", "InternalError" }

\* C9: a call that has finished has one outcome: a result whose content is
\* one text block, or an error typed Invalid-Request, Method-Not-Found or
\* Internal-Error; a call that awaits its response has none yet.
C9_OneTypedOutcome ==
    /\ Returned =>
          \/ /\ last.outcome.kind = "result"
             /\ Len(last.outcome.content) = 1
             /\ last.outcome.content[1].type = "text"
             /\ last.raised.cls = "none"
          \/ /\ last.outcome.kind = "error"
             /\ last.outcome.error.cls = "McpError"
             /\ last.outcome.error.code \in ErrorCodes
             /\ last.raised.cls # "none"
    /\ last.step = "await" => last.outcome = NoOutcome

C9_Witness ==
    /\ last.step = "complete"
    /\ last.name = "shortcut_search"
    /\ last.response.status = 204
    /\ Typed(last.outcome, "InternalError")

\* C10: an operation whose response has a non-success status fails with an
\* error whose message carries the status code and the raw body text, no
\* result is returned, and the operation has called fetch once.
C10_NonSuccessStatus ==
    (last.step = "complete" /\ last.response.kind = "http"
        /\ (last.response.status < 200 \/ last.response.status > 299))
    => /\ last.thrown.cls = "Error"
       /\ last.thrown.message =
             <<Lit("Shortcut API error ("), Lit(ToString(last.response.status)),
               Lit("): ")>> \o last.response.text
       /\ last.outcome.kind = "error"
       /\ IsSuffixOf(last.response.text, last.outcome.error.message)
       /\ Len(last.fetches) = 1

C10_Witness ==
    /\ last.step = "complete"
    /\ last.name = "shortcut_create_story"
    /\ last.response.status = 404
    /\ JSONparse(last.response.text).ok
    /\ last.outcome.kind = "error"
    /\ Len(last.fetches) = 1

----------------------------------------------------------------------------
\* Properties of the client operations

IsCall == last.step \in {"reject", "await", "complete"}
Issued == last.step \in {"await", "complete"}

StatusOk(resp) == resp.kind = "http" /\ resp.status >= 200 /\ resp.status <= 299

Contains(text, piece) == \E i \in DOMAIN text : text[i] = piece

DeleteStory == "shortcut_delete_story"

\* C11 as stated: delete_story answered with a success status returns its
\* confirmation text, whether or not the response has a body.
C11_DeleteNeedsNoBody ==
    (last.step = "complete" /\ last.name = DeleteStory /\ StatusOk(last.response))
    => /\ last.outcome.kind = "result"
       /\ Contains(last.outcome.content[1].text, Lit(ToString(last.args.obj.id)))

UpdatePath(name) ==
    IF name = "shortcut_update_story" THEN "/stories/" ELSE "/epics/"

\* C12: update_story({id, ...fields}) called while Configured issues one
\* request, PUT /stories/{id}, whose JSON body holds the supplied fields other
\* than id and nothing else; update_epic does the same on /epics/{id}.
C12_UpdatePayload ==
    (IsCall /\ last.name \in {"shortcut_update_story", "shortcut_update_epic"}
        /\ last.seen # Null /\ last.args.has)
    => /\ Issued
       /\ Len(last.fetches) = 1
       /\ LET o == last.args.obj
              req == last.fetches[1]
              sent == JSONparse(req.body.text)
          IN /\ req.method = "PUT"
             /\ req.url = <<Lit(last.seen.baseUrl), Lit(UpdatePath(last.name)),
                            Lit(ToString(o.id))>>
             /\ req.body.has
             /\ sent.ok
             /\ DOMAIN sent.value = DOMAIN o \ {"id"}
             /\ \A f \in DOMAIN sent.value : sent.value[f] = o[f]

C12_Witness ==
    /\ last.step = "complete"
    /\ last.name = "shortcut_update_story"
    /\ last.args.obj.id = 0
    /\ DOMAIN JSONparse(last.fetches[1].body.text).value = {"name", "estimate"}

\* C13: a delete_story({id}) call that succeeds has issued one request,
\* DELETE /stories/{id}, and no other, and its confirmation text contains id.
C13_DeleteStory ==
    (last.step = "complete" /\ last.name = DeleteStory
        /\ last.outcome.kind = "result")
    => /\ Len(last.fetches) = 1
       /\ last.fetches[1].method = "DELETE"
       /\ last.fetches[1].url = <<Lit(last.seen.baseUrl), Lit("/stories/"),
                                  Lit(ToString(last.args.obj.id))>>
       /\ Len(last.outcome.content) = 1
       /\ Contains(last.outcome.content[1].text,
                   Lit(ToString(last.args.obj.id)))

C13_Witness ==
    /\ last.step = "complete"
    /\ last.name = DeleteStory
    /\ last.args.obj.id = 7
    /\ last.outcome.kind = "result"

Search == "shortcut_search"

\* Percent-decoding, and the strings that may stand in a URL undecoded.
DecodeURIComponent(s) == IF s = "story%20bug" THEN "story bug" ELSE s
UrlSafe(s) == s # "story bug"

\* C14: search({query, detail}) called while Configured issues one GET to
\* /search whose URL has the query parameters query=<query>, percent-encoded,
\* and detail=<detail>, and detail=full when detail is omitted.
C14_SearchUrl ==
    (IsCall /\ last.name = Search /\ last.seen # Null /\ last.args.has
        /\ "query" \in DOMAIN last.args.obj)
    => /\ Issued
       /\ Len(last.fetches) = 1
       /\ LET o == last.args.obj
              req == last.fetches[1]
          IN /\ req.method = "GET"
             /\ Len(req.url) = 6
             /\ req.url[1] = Lit(last.seen.baseUrl)
             /\ req.url[2] = Lit("/search")
             /\ req.url[3] = Lit("?query=")
             /\ UrlSafe(req.url[4].lit)
             /\ DecodeURIComponent(req.url[4].lit) = o.query
             /\ req.url[5] = Lit("&detail=")
             /\ req.url[6] = Lit(IF "detail" \in DOMAIN o THEN o.detail
                                 ELSE "full")

C14_Witness ==
    /\ Issued
    /\ last.name = Search
    /\ last.args.obj = [query |-> "bug"]
    /\ last.fetches[1].url[6] = Lit("full")

C14_WitnessEncoded ==
    /\ Issued
    /\ last.name = Search
    /\ last.args.obj.query = "story bug"
    /\ last.fetches[1].url[4] = Lit("story%20bug")

\* The remote API surface: the method and path each tool is listed with, and
\* whether the path ends in an identifier.
Surface(name) ==
    CASE name = "shortcut_configure" -> <<"GET", "/member", FALSE>>
      [] name = "shortcut_get_stories" -> <<"POST", "/stories/search", FALSE>>
      [] name = "shortcut_get_story" -> <<"GET", "/stories/", TRUE>>
      [] name = "shortcut_create_story" -> <<"POST", "/stories", FALSE>>
      [] name = "shortcut_update_story" -> <<"PUT", "/stories/", TRUE>>
      [] name = "shortcut_delete_story" -> <<"DELETE", "/stories/", TRUE>>
      [] name = "shortcut_get_epics" -> <<"GET", "/epics", FALSE>>
      [] name = "shortcut_get_epic" -> <<"GET", "/epics/", TRUE>>
      [] name = "shortcut_create_epic" -> <<"POST", "/epics", FALSE>>
      [] name = "shortcut_update_epic" -> <<"PUT", "/epics/", TRUE>>
      [] name = "shortcut_get_projects" -> <<"GET", "/projects", FALSE>>
      [] name = "shortcut_get_project" -> <<"GET", "/projects/", TRUE>>
      [] name = "shortcut_create_project" -> <<"POST", "/projects", FALSE>>
      [] name = "shortcut_get_members" -> <<"GET", "/members", FALSE>>
      [] name = "shortcut_get_current_member" -> <<"GET", "/member", FALSE>>
      [] name = "shortcut_get_labels" -> <<"GET", "/labels", FALSE>>
      [] name = "shortcut_create_label" -> <<"POST", "/labels", FALSE>>
      [] name = "shortcut_get_iterations" -> <<"GET", "/iterations", FALSE>>
      [] name = "shortcut_get_iteration" -> <<"GET", "/iterations/", TRUE>>
      [] name = "shortcut_create_iteration" -> <<"POST", "/iterations", FALSE>>
      [] name = "shortcut_search" -> <<"GET", "/search", FALSE>>
      [] name = "shortcut_get_workflows" -> <<"GET", "/workflows", FALSE>>

ReadsArguments ==
    { "shortcut_configure", "shortcut_get_story", "shortcut_update_story",
      "shortcut_delete_story", "shortcut_get_epic", "shortcut_update_epic",
      "shortcut_get_project", "shortcut_get_iteration", "shortcut_search" }

\* C15: a catalog tool called while Configured (configure in either state),
\* with an argument object where its handler reads one, issues one request,
\* and the request of every call has the method and the path the remote API
\* surface lists for its tool.
C15_RemoteSurface ==
    /\ (IsCall /\ last.name \in Catalog
          /\ (last.seen # Null \/ last.name = Configure)
          /\ (last.args.has \/ last.name \notin ReadsArguments))
       => Issued
    /\ Issued =>
          /\ last.name \in Catalog
          /\ Len(last.fetches) = 1
          /\ LET req == last.fetches[1]
                 surface == Surface(last.name)
             IN /\ req.method = surface[1]
                /\ req.url[2] = Lit(surface[2])
                /\ IF surface[3]
                   THEN Len(req.url) = 3 /\ req.url[3] = Lit(IdStr(last.args.obj))
                   ELSE Len(req.url) = 2
                          \/ req.url[3] \in {Lit("?"), Lit("?query=")}

C15_Witness ==
    /\ last.step = "complete"
    /\ last.name = "shortcut_get_iteration"
    /\ last.fetches[1].method = "GET"
    /\ last.fetches[1].url[2] = Lit("/iterations/")

\* C16 as stated: whenever the dispatcher is Configured, some catalog tool,
\* called with an id and update fields, issues PUT /projects/{id}.
C16_ProjectUpdateTool ==
    shortcutAPI # Null =>
       \E name \in Catalog :
          \E args \in ArgsFor(name) \cup { Obj([id |-> 7, name |-> "P"]) } :
             /\ ~Entry(shortcutAPI, name, args).throws
             /\ ApiCall(name, args).options.method = "PUT"
             /\ ApiCall(name, args).endpoint[1] = UpdateProject(args).endpoint[1]

----------------------------------------------------------------------------
\* Properties of the client and of the dispatcher's state

ProductionUrl == "https://api.app.shortcut.com/api/v3"

\* C17: the request of every call carries the token its client was built
\* with in the Shortcut-Token header and a JSON content type, and its URL
\* starts with the client's base URL: the baseUrl given to configure, else
\* the production URL.  The client is the one configure built from its
\* arguments, or for another tool the dispatcher's client at the call.
C17_RequestHeaders ==
    \A s \in Slots : calls[s] # Idle =>
       LET c == calls[s]
           req == c.fetches[1]
       IN /\ req.headers.ShortcutToken = c.client.config.apiToken
          /\ req.headers.ContentType = "application/json"
          /\ req.url[1] = Lit(c.client.baseUrl)
          /\ c.client.baseUrl = IF "baseUrl" \in DOMAIN c.client.config
                                THEN c.client.config.baseUrl ELSE ProductionUrl
          /\ IF c.name = Configure
             THEN /\ c.client.config.apiToken = c.args.obj.apiToken
                  /\ "baseUrl" \in DOMAIN c.client.config
                        <=> "baseUrl" \in DOMAIN c.args.obj
                  /\ "baseUrl" \in DOMAIN c.args.obj
                        => c.client.config.baseUrl = c.args.obj.baseUrl
             ELSE c.client = c.seen

C17_Witness ==
    \E s \in Slots :
       /\ calls[s] # Idle
       /\ calls[s].name = "shortcut_create_label"
       /\ calls[s].fetches[1].url[1] = Lit(AltBaseUrl)
       /\ calls[s].fetches[1].headers.ShortcutToken = "tok-A"

ConfigureInFlight(client) ==
    \E s \in Slots : calls[s].name = Configure /\ calls[s].client = client

\* C18: the dispatcher starts Unconfigured; in every state its reference is
\* either null or one client, and that client is one a configure call built
\* and is probing or has probed successfully.
C18_Lifecycle ==
    /\ last.step = "init" => shortcutAPI = Null
    /\ \/ shortcutAPI = Null
       \/ /\ DOMAIN shortcutAPI = {"config", "baseUrl"}
          /\ \E a \in ConfigureArgs :
                shortcutAPI.config = ConfigOf(a.obj)
          /\ \/ ConfigureInFlight(shortcutAPI)
             \/ \E p \in probes : p.client = shortcutAPI

C18_Witness ==
    /\ shortcutAPI # Null
    /\ shortcutAPI.config.apiToken = "tok-B"
    /\ \E p \in probes : p.client.config.apiToken = "tok-A"
    /\ \E p \in probes : p.client = shortcutAPI
    /\ NoneInFlight

\* C19: with configure calls overlapping, each write to the client reference
\* takes effect whatever the other call has done: a configure call entering
\* makes its own client the reference, one that fails makes the reference
\* null, one that succeeds leaves the reference as it finds it, so the
\* reference is what the last of these writes made it.
C19_LastWriteWins ==
    [][/\ (last'.step = "await" /\ last'.name = Configure)
            => shortcutAPI' = NewShortcutAPI(ConfigOf(last'.args.obj))
       /\ (last'.step = "complete" /\ last'.name = Configure)
            => shortcutAPI' = IF last'.outcome.kind = "error" THEN Null
                              ELSE shortcutAPI]_vars

\* Two configure calls overlapped and both succeeded; the one that entered
\* first returned last, and the reference is the other's client.
C19_Witness ==
    /\ last.step = "complete"
    /\ last.name = Configure
    /\ last.outcome.kind = "result"
    /\ last.args.obj.apiToken = "tok-A"
    /\ NoneInFlight
    /\ shortcutAPI # Null
    /\ shortcutAPI.config.apiToken = "tok-B"

\* A configure call returned success after an overlapping one had failed:
\* the failure's write came last and the reference is null.
C19_WitnessNull ==
    /\ last.step = "complete"
    /\ last.name = Configure
    /\ last.outcome.kind = "result"
    /\ NoneInFlight
    /\ shortcutAPI = Null

\* C20: list tools can be called in every state, returns the catalog
\* whatever the state, issues no request and changes nothing of the
\* dispatcher.
C20_ListTools ==
    /\ [](ENABLED ListTools)
    /\ [][last'.step = "list" =>
            /\ last'.outcome = [kind |-> "tools", tools |-> Catalog]
            /\ last'.fetches = << >>
            /\ UNCHANGED <<shortcutAPI, calls, probes>>]_vars

C20_Witness ==
    /\ last.step = "list"
    /\ last.seen = Null
    /\ shortcutAPI = Null
    /\ last.outcome.kind = "tools"
    /\ Cardinality(last.outcome.tools) = 22

C20_WitnessConfigured ==
    /\ last.step = "list"
    /\ shortcutAPI # Null
    /\ ~NoneInFlight
    /\ last.outcome.kind = "tools"

----------------------------------------------------------------------------
\* Round trip, termination, ordering

CreateStory == "shortcut_create_story"
GetStory == "shortcut_get_story"

\* C21: against a remote that stores what it is sent, a create_story call
\* that succeeds has sent its arguments, name included, unchanged as the body
\* and returns the story the remote stored with its new id; a stored story
\* stays as it is until it is deleted; a get_story call addresses the id it is
\* given and, answered with success, returns the story stored under that id,
\* whose name is therefore the name the create was given.
C21_RoundTrip ==
    /\ [][(last'.step = "complete" /\ last'.name = CreateStory
              /\ last'.outcome.kind = "result")
          => LET req == last'.fetches[1]
                 sent == JSONparse(req.body.text)
             IN /\ req.body.has
                /\ sent.ok
                /\ sent.value = last'.args.obj
                /\ \E e \in remote' \ remote :
                      /\ e.at = req.url[1]
                      /\ e.story.name = last'.args.obj.name
                      /\ last'.outcome =
                            Success(<<Lit("Story created successfully!\n")>>
                                      \o JSONstringify(e.story, 2))]_vars
    /\ [][\A e \in remote :
             e \in remote' \/ (last'.step = "complete" /\ last'.name = DeleteStory)]_vars
    /\ [](last.step = "complete" /\ last.name = GetStory
            /\ last.outcome.kind = "result"
          => LET req == last.fetches[1]
             IN /\ req.method = "GET"
                /\ req.url = <<Lit(last.seen.baseUrl), Lit("/stories/"),
                               Lit(ToString(last.args.obj.id))>>
                /\ \A e \in remote :
                      (e.at = req.url[1] /\ e.story.id = last.args.obj.id)
                      => last.outcome = Success(JSONstringify(e.story, 2)))

C21_Witness ==
    /\ last.step = "complete"
    /\ last.name = GetStory
    /\ last.outcome.kind = "result"
    /\ \E e \in remote :
          /\ e.at = last.fetches[1].url[1]
          /\ e.story.id = last.args.obj.id
          /\ e.story.name = "Z"
          /\ last.outcome = Success(JSONstringify(e.story, 2))

\* C22: a call that issues no request is answered in the step it arrives
\* in; a call that issues one has issued exactly one and waits for nothing
\* else: whatever the other calls do, it can take its response, and taking it
\* ends the call with a result or an error after that one request, leaving
\* the other calls as they are; with every fetch settling, every call ends.
C22_OneRoundTrip ==
    /\ [](last.step = "reject" =>
            last.fetches = << >> /\ last.outcome.kind = "error")
    /\ [](\A s \in Slots : calls[s] # Idle =>
            /\ Len(calls[s].fetches) = 1
            /\ ENABLED Complete(s, "network")
            /\ ENABLED Complete(s, "unauthorized")
            /\ ENABLED Complete(s, "empty"))
    /\ [][last'.step = "complete" =>
            \E s \in Slots :
               /\ calls[s] # Idle
               /\ calls'[s] = Idle
               /\ \A t \in Slots \ {s} : calls'[t] = calls[t]
               /\ last'.fetches = calls[s].fetches
               /\ last'.outcome.kind \in {"result", "error"}]_vars
    /\ \A s \in Slots : (calls[s] # Idle) ~> (calls[s] = Idle)

\* A call returned while another, which entered before it, still awaits.
C22_Witness ==
    /\ last.step = "complete"
    /\ Len(last.fetches) = 1
    /\ last.outcome.kind = "result"
    /\ calls[1] # Idle
    /\ calls[2] = Idle

\* C23: a call of any name other than configure, in the catalog or not, that
\* finds the dispatcher Unconfigured is refused by the gate: it fails with the
\* Invalid-Request error that says to configure first, the error the gate
\* raised and not the lookup's, and issues no request.
C23_GateBeforeLookup ==
    (IsCall /\ last.name # Configure /\ last.seen = Null)
    => /\ last.step = "reject"
       /\ last.raised = McpError("InvalidRequest", NotConfiguredMessage)
       /\ last.outcome = Failure(last.raised)
       /\ last.raised # UnknownTool(last.name)
       /\ last.fetches = << >>
       /\ shortcutAPI = Null

C23_Witness ==
    /\ last.step = "reject"
    /\ last.name = "shortcut_delete_epic"
    /\ last.name \notin Catalog
    /\ last.seen = Null
    /\ last.outcome = Failure(McpError("InvalidRequest", NotConfiguredMessage))

ConfigureSucceeded ==
    last.step = "complete" /\ last.name = Configure /\ last.outcome.kind = "result"

\* C24 as stated: once a configure call has returned success, a step that
\* does not start another configure call leaves the dispatcher Configured,
\* and a call of another tool made then is not refused by the gate.
C24_StaysConfigured ==
    [][(ConfigureSucceeded
          /\ ~(last'.step \in {"await", "reject"} /\ last'.name = Configure))
       => /\ shortcutAPI' # Null
          /\ last'.step = "reject" => last'.raised.message # NotConfiguredMessage]_vars

----------------------------------------------------------------------------
\* get_stories

GetStories == "shortcut_get_stories"

FilterNames ==
    { "project_id", "epic_id", "workflow_state_id", "includes_description" }

\* The text of a filter's value, and whether JavaScript takes it as true.
ValueText(f, v) ==
    IF f = "includes_description" THEN (IF v THEN "true" ELSE "false")
    ELSE ToString(v)

IsTruthy(f, v) == IF f = "includes_description" THEN v ELSE v # 0

\* The URL's query string has the parameter k=v.
HasParam(url, k, v) ==
    \E i \in 4..(Len(url) - 2) :
       /\ url[i - 1] \in { Lit("?"), Lit("&") }
       /\ url[i] = Lit(k)
       /\ url[i + 1] = Lit("=")
       /\ url[i + 2] = Lit(v)

\* The request of a get_stories call: one POST to /stories/search whose
\* body is the argument object, {} when there is none.
StoriesRequest ==
    /\ Len(last.fetches) = 1
    /\ last.fetches[1].method = "POST"
    /\ SubSeq(last.fetches[1].url, 1, 2)
          = <<Lit(last.seen.baseUrl), Lit("/stories/search")>>
    /\ last.fetches[1].body = [has |-> TRUE,
                               text |-> JSONstringify(last.args.obj, 0)]
    /\ ~last.args.has => last.args.obj = EmptyObj

\* C25 as stated: every filter present in the arguments is in the query
\* string with its value, and there is no query string when none is present.
C25_PresentFiltersInQuery ==
    (Issued /\ last.name = GetStories)
    => /\ StoriesRequest
       /\ \A f \in FilterNames \cap DOMAIN last.args.obj :
             HasParam(last.fetches[1].url, f, ValueText(f, last.args.obj[f]))
       /\ (FilterNames \cap DOMAIN last.args.obj = {})
             => Len(last.fetches[1].url) = 2

\* C25 amended: the call issues one POST to /stories/search whose body is
\* the full argument object; a filter is in the query string, with its value,
\* exactly when it is present with a truthy value (a non-zero number, true):
\* a filter given as 0 or false is left out of the query and stays in the
\* body; with no truthy filter the URL has no query string.
C25_TruthyFiltersInQuery ==
    (Issued /\ last.name = GetStories)
    => /\ StoriesRequest
       /\ LET o == last.args.obj
              url == last.fetches[1].url
              truthy == { f \in FilterNames \cap DOMAIN o : IsTruthy(f, o[f]) }
          IN /\ \A f \in truthy : HasParam(url, f, ValueText(f, o[f]))
             /\ \A f \in FilterNames \ truthy : ~Contains(url, Lit(f))
             /\ truthy = {} <=> Len(url) = 2
             /\ Len(url) > 2 => Len(url) = 2 + 4 * Cardinality(truthy)

C25_Witness ==
    /\ last.step = "complete"
    /\ last.name = GetStories
    /\ last.args.obj = [project_id |-> 0, includes_description |-> FALSE,
                        workflow_state_id |-> 9]
    /\ last.fetches[1].url = <<Lit(last.seen.baseUrl), Lit("/stories/search"),
                               Lit("?"), Lit("workflow_state_id"), Lit("="),
                               Lit("9")>>
    /\ JSONparse(last.fetches[1].body.text).value = last.args.obj

C25_WitnessAll ==
    /\ Issued
    /\ last.name = GetStories
    /\ Len(last.fetches[1].url) = 14
    /\ HasParam(last.fetches[1].url, "includes_description", "true")

----------------------------------------------------------------------------
\* Catalog and dispatch table

\* C26: the names list tools advertises are the names the switch has a case
\* for; a call with an advertised name never ends in Method-Not-Found, a
\* Configured call with any other name does, and only advertised names get
\* as far as issuing a request.
C26_CatalogMatchesDispatch ==
    /\ ListToolsResult(shortcutAPI).tools = SwitchCases
    /\ (Returned /\ last.name \in ListToolsResult(shortcutAPI).tools)
          => ~Typed(last.outcome, "MethodNotFound")
    /\ (Returned /\ last.seen # Null
          /\ last.name \notin ListToolsResult(shortcutAPI).tools)
          => Typed(last.outcome, "MethodNotFound")
    /\ Issued => last.name \in ListToolsResult(shortcutAPI).tools

C26_Witness ==
    /\ last.step = "complete"
    /\ last.name = "shortcut_get_workflows"
    /\ last.seen # Null
    /\ last.outcome.kind = "result"

----------------------------------------------------------------------------
\* Overlapping calls

NoConfigureInFlight == \A s \in Slots : calls[s].name # Configure

\* C27: whenever no configure call is in flight and the dispatcher is
\* Configured, its client is one whose probe succeeded: the probe went out
\* with that client's token to that client's base URL and was answered with
\* success.
C27_LiveClientProbed ==
    (NoConfigureInFlight /\ shortcutAPI # Null)
    => \E p \in probes :
          /\ p.client = shortcutAPI
          /\ p.request.headers.ShortcutToken = shortcutAPI.config.apiToken
          /\ p.request.url = <<Lit(shortcutAPI.baseUrl), Lit("/member")>>

\* A configure call returned success while a call of another tool, gated on
\* the client it was still probing, is in flight; its client is the live one.
C27_Witness ==
    /\ ConfigureSucceeded
    /\ NoConfigureInFlight
    /\ ~NoneInFlight
    /\ shortcutAPI = NewShortcutAPI(ConfigOf(last.args.obj))
    /\ Cardinality(probes) = 1

\* C28: no call dereferences a missing client.  A call in flight holds the
\* client it issued its request through, which for a tool other than
\* configure is the non-null reference it found at the gate; no call fails
\* with the error of reading a property of null; a Configured call of a known
\* tool that has its arguments issues its request, whatever configure calls
\* fail before or after.
C28_NoNullDereference ==
    /\ \A s \in Slots : calls[s] # Idle =>
          /\ calls[s].client # Null
          /\ calls[s].name # Configure =>
                (calls[s].seen # Null /\ calls[s].client = calls[s].seen)
    /\ Returned =>
          (last.raised.cls = "none"
             \/ last.raised.message # NullDereference.message)
    /\ (IsCall /\ last.name \in SwitchCases \ {Configure} /\ last.seen # Null
          /\ (last.args.has \/ last.name \notin Destructuring))
       => /\ Issued
          /\ last.fetches[1].headers.ShortcutToken = last.seen.config.apiToken

\* A call that passed the gate returned its result after a configure call
\* had failed and reset the reference while it was in flight.
C28_Witness ==
    /\ last.step = "complete"
    /\ last.name = GetCurrentMember
    /\ last.outcome.kind = "result"
    /\ last.seen # Null
    /\ shortcutAPI = Null
    /\ probes = {}

\* C29: a call in flight stays as it was dispatched whatever the other
\* calls do: its request, with the token and base URL of the client that was
\* live at its dispatch, does not change when a configure call starts or
\* completes, and its outcome is what its own request's response gives; a
\* call of another tool dispatched now goes out through the client live now.
C29_InFlightKeepsClient ==
    /\ [][\A s \in Slots :
             (calls[s] # Idle /\ calls'[s] # Idle) => calls'[s] = calls[s]]_vars
    /\ [](\A s \in Slots : (calls[s] # Idle /\ calls[s].name # Configure) =>
             /\ calls[s].fetches[1].headers.ShortcutToken
                   = calls[s].seen.config.apiToken
             /\ calls[s].fetches[1].url[1] = Lit(calls[s].seen.baseUrl))
    /\ [][last'.step = "complete" =>
             \E s \in Slots :
                /\ calls[s] # Idle /\ calls'[s] = Idle
                /\ last'.fetches = calls[s].fetches
                /\ last'.seen = calls[s].seen
                /\ last'.name # Configure =>
                      last'.outcome =
                         IF MakeRequest(last'.response).ok
                         THEN Success(Format(calls[s].name, calls[s].args,
                                             MakeRequest(last'.response).value))
                         ELSE Failure(Catch(calls[s].name,
                                            MakeRequest(last'.response).error))]_vars
    /\ [][(last'.step = "await" /\ last'.name # Configure) =>
             /\ last'.seen = shortcutAPI
             /\ last'.fetches[1].headers.ShortcutToken
                   = shortcutAPI.config.apiToken]_vars

\* A get_current_member call dispatched under tok-A returned tok-A's member
\* after a configure call for tok-B had replaced the client.
C29_Witness ==
    /\ last.step = "complete"
    /\ last.name = GetCurrentMember
    /\ last.seen # Null
    /\ last.seen.config.apiToken = "tok-A"
    /\ last.fetches[1].headers.ShortcutToken = "tok-A"
    /\ shortcutAPI # Null
    /\ shortcutAPI.config.apiToken = "tok-B"
    /\ last.outcome = Success(JSONstringify(MemberOf("tok-A"), 2))

----------------------------------------------------------------------------
\* Calls without an argument object

\* The tools whose handlers extract fields from their arguments.
ExtractsFields ==
    { "shortcut_configure", "shortcut_get_story", "shortcut_update_story",
      "shortcut_delete_story", "shortcut_get_epic", "shortcut_update_epic",
      "shortcut_get_project", "shortcut_get_iteration", "shortcut_search" }

MissingArguments == IsCall /\ last.name \in ExtractsFields /\ ~last.args.has

InternalErrorNaming(name) ==
    /\ Typed(last.outcome, "InternalError")
    /\ SubSeq(last.outcome.error.message, 1, 3)
          = <<Lit("Error executing "), Lit(name), Lit(": ")>>

\* C30 as stated: a call without an argument object, for configure or for a
\* tool whose handler extracts fields from its arguments, fails with
\* Internal-Error naming the tool, issues no request and leaves the client
\* reference unchanged.
C30_NoArgumentsInternalError ==
    MissingArguments
    => /\ last.step = "reject"
       /\ InternalErrorNaming(last.name)
       /\ last.fetches = << >>
       /\ shortcutAPI = last.seen

\* C30 amended: such a call issues no request and leaves the client
\* reference unchanged; it fails with Internal-Error naming the tool when the
\* tool is configure (in either state, and not with Invalid-Request) or the
\* dispatcher is Configured, and with the gate's Invalid-Request when the
\* tool is not configure and the dispatcher is Unconfigured.
C30_NoArgumentsByState ==
    MissingArguments
    => /\ last.step = "reject"
       /\ last.fetches = << >>
       /\ shortcutAPI = last.seen
       /\ IF last.name = Configure \/ last.seen # Null
          THEN /\ InternalErrorNaming(last.name)
               /\ last.raised.cls = "TypeError"
          ELSE last.outcome = Failure(McpError("InvalidRequest",
                                               NotConfiguredMessage))

C30_Witness ==
    /\ last.step = "reject"
    /\ last.name = Configure
    /\ ~last.args.has
    /\ last.seen # Null
    /\ shortcutAPI = last.seen
    /\ InternalErrorNaming(Configure)

C30_WitnessSearch ==
    /\ last.step = "reject"
    /\ last.name = Search
    /\ ~last.args.has
    /\ last.seen # Null
    /\ InternalErrorNaming(Search)

====
